---- MODULE Spec2Model ----
(***************************************************************************)
(* A model of the 3GPP document downloader: the command line tool          *)
(* (src/3gpp_downloader.py) and the MCP server (src/mcp_server.py).        *)
(*                                                                         *)
(* Text is modelled as a sequence of one-character strings, so that the    *)
(* prefix, suffix, slice, case and base-36 operations of the code are      *)
(* computed character by character, as Python computes them.              *)
(***************************************************************************)
EXTENDS Integers, Sequences, FiniteSets, TLC

(***************************************************************************)
(* Bounds of the model.                                                    *)
(***************************************************************************)
\* Largest release number n of a release label "Rel-n" given to the codec.
MaxRel == 40

\* Largest number of hyperlinks of a directory listing.
MaxListing == 3

\* Largest number of entries of an archive.
MaxEntries == 3

\* Largest number of extractions of one archive into one directory.
MaxRuns == 2

\* The last second of the clock.
MaxTime == 1

(***************************************************************************)
(* Characters and strings.                                                 *)
(***************************************************************************)
\* The base-36 digits in order of value: Digits36[v + 1] has value v.
Digits36 ==
  << "0", "1", "2", "3", "4", "5", "6", "7", "8", "9",
     "a", "b", "c", "d", "e", "f", "g", "h", "i", "j", "k", "l", "m",
     "n", "o", "p", "q", "r", "s", "t", "u", "v", "w", "x", "y", "z" >>

UpperLetters ==
  << "A", "B", "C", "D", "E", "F", "G", "H", "I", "J", "K", "L", "M",
     "N", "O", "P", "Q", "R", "S", "T", "U", "V", "W", "X", "Y", "Z" >>

\* The position of c in the sequence s, or 0 when c does not occur in it.
IndexOf(s, c) ==
  IF \E i \in 1..Len(s) : s[i] = c
    THEN CHOOSE i \in 1..Len(s) : s[i] = c
    ELSE 0

\* str.lower() and str.upper() on one character.
LowerChar(c) ==
  IF IndexOf(UpperLetters, c) > 0 THEN Digits36[10 + IndexOf(UpperLetters, c)] ELSE c

UpperChar(c) ==
  IF IndexOf(Digits36, c) > 10 THEN UpperLetters[IndexOf(Digits36, c) - 10] ELSE c

Lower(s) == [i \in 1..Len(s) |-> LowerChar(s[i])]

Upper(s) == [i \in 1..Len(s) |-> UpperChar(s[i])]

IsDecDigit(c) == IndexOf(Digits36, c) \in 1..10

\* str.startswith and str.endswith.
StartsWith(s, p) == Len(p) <= Len(s) /\ SubSeq(s, 1, Len(p)) = p

EndsWith(s, p) == Len(p) <= Len(s) /\ SubSeq(s, Len(s) - Len(p) + 1, Len(s)) = p

\* s[a:-b] of Python, for a >= 0 and b > 0: empty when the two ends cross.
SliceFromTo(s, a, b) == SubSeq(s, a + 1, Len(s) - b)

\* The value of a string of decimal digits (int(m.group(1))).
RECURSIVE DecValue(_)
DecValue(s) ==
  IF s = << >> THEN 0
  ELSE 10 * DecValue(SubSeq(s, 1, Len(s) - 1)) + (IndexOf(Digits36, s[Len(s)]) - 1)

\* The decimal digits of n >= 0 (the f-string "{rel_num}").
RECURSIVE DecString(_)
DecString(n) ==
  IF n < 10 THEN << Digits36[n + 1] >>
  ELSE Append(DecString(n \div 10), Digits36[(n % 10) + 1])

\* The longest run of decimal digits at the start of s (the group (\d+)).
RECURSIVE DigitRun(_)
DigitRun(s) ==
  IF s # << >> /\ IsDecDigit(Head(s)) THEN << Head(s) >> \o DigitRun(Tail(s))
  ELSE << >>

(***************************************************************************)
(* rel_to_zip_suffix: a release label to the version code of its release.  *)
(***************************************************************************)
\* A call's outcome: a returned value, or the exception it raised.
Returned(v) == [raised |-> "none", val |-> v]

Raised(e) == [raised |-> e, val |-> << >>]

\* A plausible slip: the letter band tested with <= 36 instead of < 36.
RelToZipSuffixOffByOne(rel) ==
  LET digits == DigitRun(SubSeq(rel, 5, Len(rel)))
      rel_num == DecValue(digits)
  IN  IF ~(StartsWith(Lower(rel), << "r", "e", "l", "-" >>) /\ digits # << >>)
        THEN Raised("InvalidReleaseFormat")
      ELSE IF rel_num < 10 THEN Returned(DecString(rel_num) \o << "0", "0" >>)
      ELSE IF rel_num <= 36
        THEN Returned(<< (Digits36 \o << "{" >>)[10 + (rel_num - 10) + 1], "0", "0" >>)
      ELSE Raised("UnsupportedRelease")

rel_to_zip_suffix(rel) ==
  LET digits == DigitRun(SubSeq(rel, 5, Len(rel)))
      rel_num == DecValue(digits)
  IN  IF ~(StartsWith(Lower(rel), << "r", "e", "l", "-" >>) /\ digits # << >>)
        THEN Raised("InvalidReleaseFormat")
      ELSE IF rel_num < 10 THEN Returned(DecString(rel_num) \o << "0", "0" >>)
      ELSE IF rel_num < 36
        THEN Returned(<< Digits36[10 + (rel_num - 10) + 1], "0", "0" >>)
      ELSE Raised("UnsupportedRelease")

(***************************************************************************)
(* parse_spec_number: a document identifier to (series, number, part).     *)
(***************************************************************************)
RECURSIVE SkipSpaces(_)
SkipSpaces(s) ==
  IF s # << >> /\ Head(s) = " " THEN SkipSpaces(Tail(s)) ELSE s

\* re.match(r"(TS|TR|GS|GR)\s*(\d{2})\.(\d{3})(?:-(\d+))?", spec.upper()).
parse_spec_number(spec) ==
  LET u == Upper(spec)
      rest == SkipSpaces(SubSeq(u, 3, Len(u)))
      matches ==
        /\ Len(u) >= 2
        /\ SubSeq(u, 1, 2) \in { << "T", "S" >>, << "T", "R" >>,
                                 << "G", "S" >>, << "G", "R" >> }
        /\ Len(rest) >= 6
        /\ IsDecDigit(rest[1]) /\ IsDecDigit(rest[2])
        /\ rest[3] = "."
        /\ IsDecDigit(rest[4]) /\ IsDecDigit(rest[5]) /\ IsDecDigit(rest[6])
      after == SubSeq(rest, 7, Len(rest))
      sub == IF after # << >> /\ Head(after) = "-" THEN DigitRun(Tail(after))
             ELSE << >>
  IN  IF ~matches THEN Raised("InvalidSpecFormat")
      ELSE Returned([series |-> SubSeq(rest, 1, 2),
                     number |-> SubSeq(rest, 4, 6),
                     sub |-> IF sub = << >> THEN << "1" >> ELSE sub])

(***************************************************************************)
(* int(text, 36) of Python: surrounding whitespace is stripped, one sign   *)
(* may lead, and single underscores may separate digits; anything else     *)
(* raises ValueError.                                                      *)
(***************************************************************************)
RECURSIVE StripRight(_)
StripRight(s) ==
  IF s # << >> /\ s[Len(s)] = " " THEN StripRight(SubSeq(s, 1, Len(s) - 1)) ELSE s

Strip(s) == StripRight(SkipSpaces(s))

\* The base-36 value of one character, letters in either case; -1 for none.
Digit36(c) == IndexOf(Digits36, LowerChar(c)) - 1

RECURSIVE Magnitude36(_)
Magnitude36(s) ==
  IF s = << >> THEN 0
  ELSE IF s[Len(s)] = "_" THEN Magnitude36(SubSeq(s, 1, Len(s) - 1))
  ELSE 36 * Magnitude36(SubSeq(s, 1, Len(s) - 1)) + Digit36(s[Len(s)])

ParseInt36(text) ==
  LET t == Strip(text)
      signed == t # << >> /\ Head(t) \in { "+", "-" }
      body == IF signed THEN Tail(t) ELSE t
      ok == /\ body # << >>
            /\ Head(body) # "_"
            /\ body[Len(body)] # "_"
            /\ \A i \in 1..Len(body) :
                 \/ Digit36(body[i]) >= 0
                 \/ body[i] = "_" /\ i < Len(body) /\ body[i + 1] # "_"
      mag == Magnitude36(body)
  IN  IF ~ok THEN Raised("ValueError")
      ELSE Returned(IF signed /\ Head(t) = "-" THEN 0 - mag ELSE mag)

(***************************************************************************)
(* find_spec_zip_link: the listing of a document's directory to the link   *)
(* of the latest archive of the requested release.                         *)
(***************************************************************************)
\* os.path.basename: what follows the last "/".
RECURSIVE Basename(_)
Basename(path) ==
  IF IndexOf(path, "/") = 0 THEN path
  ELSE Basename(SubSeq(path, IndexOf(path, "/") + 1, Len(path)))

DotZip == << ".", "z", "i", "p" >>

\* f"{series}{number}-"
FilePrefix(series, number) == series \o number \o << "-" >>

\* filename[len(f"{series}{number}-") : -4]
VersionCodeOf(filename, series, number) ==
  SliceFromTo(filename, Len(FilePrefix(series, number)), 4)

\* The test of the candidate loop on one hyperlink target.
IsCandidateAnyDocument(href, series, number, rel_suffix) ==
  LET filename == Basename(href)
  IN  /\ EndsWith(href, DotZip)
      /\ StartsWith(filename, series) /\ EndsWith(filename, DotZip)
      /\ StartsWith(SliceFromTo(filename, Len(FilePrefix(series, number)), 4),
                    SubSeq(rel_suffix, 1, 1))

IsCandidate(href, series, number, rel_suffix) ==
  LET filename == Basename(href)
  IN  /\ EndsWith(href, DotZip)
      /\ StartsWith(filename, FilePrefix(series, number))
      /\ EndsWith(filename, DotZip)
      /\ StartsWith(VersionCodeOf(filename, series, number),
                    SubSeq(rel_suffix, 1, 1))

\* The list `candidates` after the loop over the listing's links.
CandidatesOf(listing, series, number, rel_suffix) ==
  SelectSeq(listing, LAMBDA href : IsCandidate(href, series, number, rel_suffix))

extract_version(href, series, number) ==
  LET p == ParseInt36(VersionCodeOf(Basename(href), series, number))
  IN  IF p.raised = "none" THEN p.val ELSE 0

\* A plausible slip: min instead of max.
LatestByMin(cands, series, number) ==
  cands[CHOOSE i \in 1..Len(cands) :
          /\ \A j \in 1..Len(cands) :
               extract_version(cands[i], series, number)
                 <= extract_version(cands[j], series, number)
          /\ \A j \in 1..(i - 1) :
               extract_version(cands[j], series, number)
                 > extract_version(cands[i], series, number)]

\* max(candidates, key=extract_version): the first candidate of largest key.
Latest(cands, series, number) ==
  cands[CHOOSE i \in 1..Len(cands) :
          /\ \A j \in 1..Len(cands) :
               extract_version(cands[j], series, number)
                 <= extract_version(cands[i], series, number)
          /\ \A j \in 1..(i - 1) :
               extract_version(cands[j], series, number)
                 < extract_version(cands[i], series, number)]

\* The result None.
NoLink == [base |-> << >>, href |-> << >>]

\* urljoin(doc_url, latest): the link resolved against the directory
\* {series}.{number}/ of the archive server.
Urljoin(series, number, href) ==
  [base |-> series \o << "." >> \o number, href |-> href]

\* http is the outcome of requests.get and raise_for_status on the listing.
find_spec_zip_link(series, number, rel_suffix, http, listing) ==
  LET cands == CandidatesOf(listing, series, number, rel_suffix)
  IN  IF http # "ok" THEN Raised(http)
      ELSE IF cands = << >> THEN Returned(NoLink)
      ELSE Returned(Urljoin(series, number, Latest(cands, series, number)))

(***************************************************************************)
(* list_available_specs: the releases of a document, grouped from the      *)
(* version codes of its listing.                                           *)
(***************************************************************************)
\* str(n) for an integer n (the f-string "Rel-{release_num}").
IntString(n) == IF n < 0 THEN << "-" >> \o DecString(0 - n) ELSE DecString(n)

\* The release number the grouping loop gives a version code read as
\* version_num.
ReleaseNumOf(version_num) ==
  IF version_num < 10 THEN version_num
  ELSE 10 + (version_num \div 100) - 1

ReleaseNameOf(version_code) ==
  << "R", "e", "l", "-" >> \o IntString(ReleaseNumOf(ParseInt36(version_code).val))

\* The dict `releases` after the loop over zip_files: release name to the
\* version codes grouped under it, in listing order.
ReleasesOf(listing, series, number) ==
  LET zip_files == SelectSeq(listing, LAMBDA href : EndsWith(href, DotZip))
      grouped == SelectSeq(zip_files, LAMBDA href :
                   /\ StartsWith(Basename(href), FilePrefix(series, number))
                   /\ EndsWith(Basename(href), DotZip)
                   /\ ParseInt36(VersionCodeOf(Basename(href), series, number)).raised
                        = "none")
      codes == [i \in 1..Len(grouped) |->
                  VersionCodeOf(Basename(grouped[i]), series, number)]
      names == { ReleaseNameOf(codes[i]) : i \in 1..Len(codes) }
  IN  [name \in names |->
         SelectSeq(codes, LAMBDA code : ReleaseNameOf(code) = name)]

\* The outcome of one series page in the enumeration of all series.
SeriesHasSpecs(page) == page = "specs"

\* A tool's answer: a message of a kind, with what the message reports.
Message(kind, detail) ==
  Returned([kind |-> kind, detail |-> detail])

\* The body of list_available_specs inside its try block.  `pages` gives the
\* outcome of the page of each series 20..39 ("specs", "empty", "error").
ListAvailableSpecsBody(spec, release, http, listing, pages) ==
  LET parsed == parse_spec_number(spec)
      series == parsed.val.series
      number == parsed.val.number
      zip_files == SelectSeq(listing, LAMBDA href : EndsWith(href, DotZip))
      releases == ReleasesOf(listing, series, number)
  IN  IF spec # << >>
        THEN IF parsed.raised # "none" THEN Raised(parsed.raised)
             ELSE IF http # "ok" THEN Raised(http)
             ELSE IF zip_files = << >> THEN Message("failure", "spec does not exist")
             ELSE IF release # << >>
               THEN IF release \in DOMAIN releases
                      THEN Message("success", "release available")
                      ELSE Message("failure", "release does not exist")
             ELSE IF DOMAIN releases # { }
               THEN Message("success", "releases listed")
               ELSE Message("failure", "no valid releases")
        ELSE IF \E n \in DOMAIN pages : SeriesHasSpecs(pages[n])
               THEN Message("success", "series listed")
               ELSE Message("failure", "no series information")

(***************************************************************************)
(* State.                                                                  *)
(***************************************************************************)
VARIABLES
  pc,          \* where the run under study stands
  relNum,      \* codec: the release number the label was written from
  relKind,     \* codec: how the label was written
  relLabel,    \* codec: the release label given to rel_to_zip_suffix
  relOut,      \* codec: what rel_to_zip_suffix returned or raised
  listing,     \* resolver: the links of the directory listing, in page order
  request,     \* resolver: the requested document and release
  candidates,  \* resolver: the list `candidates` of find_spec_zip_link
  found,       \* resolver: what find_spec_zip_link returned or raised
  releases,    \* resolver: the dict `releases` of list_available_specs
  archive,     \* extractor: the entries of the downloaded archive, in order
  outDir,      \* extractor: the entry names written under output_dir
  extracted,   \* extractor: the names the last extraction reported
  runs,        \* extractor: the extractions made into output_dir so far
  cliExit,     \* command line: the exit status of the process
  cliStage,    \* command line: how far the run got
  download_state, \* server: the registry of resolved links, by download ID
  now,         \* server: the clock, in whole seconds
  last,        \* server: the last tool call and its answer
  consumed     \* server: the IDs downloaded and not registered again since

vars ==
  << pc, relNum, relKind, relLabel, relOut,
     listing, request, candidates, found, releases,
     archive, outDir, extracted, runs, cliExit, cliStage,
     download_state, now, last, consumed >>

codecVars == << relNum, relKind, relLabel, relOut >>

resolverVars == << listing, request, candidates, found, releases >>

extractorVars == << archive, outDir, extracted, runs >>

cliVars == << cliExit, cliStage >>

serverVars == << download_state, now, last, consumed >>

CodecIdle ==
  /\ relNum = 0
  /\ relKind = "none"
  /\ relLabel = << >>
  /\ relOut = Raised("idle")

ResolverIdle ==
  /\ listing = << >>
  /\ request = [spec |-> << >>, release |-> << >>, relNum |-> 0]
  /\ candidates = << >>
  /\ found = Raised("idle")
  /\ releases = << >>

ExtractorIdle ==
  /\ archive = [opens |-> FALSE, entries |-> << >>]
  /\ outDir = { }
  /\ extracted = << >>
  /\ runs = 0

CliIdle ==
  /\ cliExit = 0 - 1
  /\ cliStage = "idle"

ServerIdle ==
  /\ download_state = << >>
  /\ now = 0
  /\ last = [op |-> "none"]
  /\ consumed = { }

(***************************************************************************)
(* The codec: rel_to_zip_suffix applied to release labels.                 *)
(***************************************************************************)
\* The ways a label of release n is written.  The first four match
\* Rel-(\d+) without regard to case; the last two do not.
RelLabelOf(kind, n) ==
  CASE kind = "plain" -> << "R", "e", "l", "-" >> \o DecString(n)
    [] kind = "upper" -> << "R", "E", "L", "-" >> \o DecString(n)
    [] kind = "padded" -> << "r", "e", "l", "-", "0" >> \o DecString(n)
    [] kind = "trailing" -> << "R", "e", "l", "-" >> \o DecString(n) \o << " ", "x" >>
    [] kind = "nodash" -> << "R", "e", "l" >> \o DecString(n)
    [] kind = "bare" -> DecString(n)

MatchingKinds == { "plain", "upper", "padded", "trailing" }

RelKinds == MatchingKinds \cup { "nodash", "bare" }

InitCodec ==
  /\ pc = "idle"
  /\ relNum \in 0..MaxRel
  /\ relKind \in RelKinds
  /\ relLabel = RelLabelOf(relKind, relNum)
  /\ relOut = Raised("idle")
  /\ ResolverIdle /\ ExtractorIdle /\ CliIdle /\ ServerIdle

ApplyRelToZipSuffix ==
  /\ pc = "idle"
  /\ relKind # "none"
  /\ relOut' = rel_to_zip_suffix(relLabel)
  /\ pc' = "done"
  /\ UNCHANGED << relNum, relKind, relLabel, resolverVars, extractorVars, cliVars, serverVars >>

NextCodec == ApplyRelToZipSuffix

SpecCodec == InitCodec /\ [][NextCodec]_vars

\* The letters a..z in order.
LowercaseLetters == SubSeq(Digits36, 11, 36)

\* C1: for a release number n written as a label Rel-n, the suffix returned
\* starts with the decimal digit n when 0 <= n <= 9 and with the lowercase
\* letter at offset n - 10 from "a" when 10 <= n <= 35, and for n >= 36 the
\* call raises the unsupported-release error and returns no suffix.
C1_ReleaseToTokenPrefix ==
  (pc = "done" /\ relKind \in MatchingKinds) =>
    /\ (relNum <= 9) =>
         /\ relOut.raised = "none"
         /\ Head(relOut.val) = Head(DecString(relNum))
    /\ (10 <= relNum /\ relNum <= 35) =>
         /\ relOut.raised = "none"
         /\ Head(relOut.val) = LowercaseLetters[relNum - 10 + 1]
    /\ (relNum >= 36) => relOut.raised = "UnsupportedRelease"

C1_Witness ==
  /\ pc = "done"
  /\ relKind = "padded"
  /\ relNum = 18
  /\ relOut = Returned(<< "i", "0", "0" >>)

(***************************************************************************)
(* The resolver: find_spec_zip_link and the grouping of                    *)
(* list_available_specs applied to directory listings.                     *)
(***************************************************************************)
\* A hyperlink of a listing, by the parts its target is written from.
Link(dir, doc, tok, ext) == [dir |-> dir, doc |-> doc, tok |-> tok, ext |-> ext]

\* The href attribute of a link.
Href(link) == link.dir \o link.doc \o << "-" >> \o link.tok \o link.ext

Doc24301 == << "2", "4", "3", "0", "1" >>

Doc24302 == << "2", "4", "3", "0", "2" >>

SampleLinks ==
  { Link(<< >>, Doc24301, << "f", "4", "0" >>, DotZip),
    Link(<< >>, Doc24301, << "g", "2", "0" >>, DotZip),
    Link(<< >>, Doc24302, << "f", "1", "0" >>, DotZip),
    Link(<< >>, Doc24301, << "i", "0", "0" >>, DotZip),
    Link(<< "x", "/" >>, Doc24301, << "i", "5", "z" >>, DotZip),
    Link(<< >>, Doc24301, << "i", "6", "0" >>, DotZip),
    Link(<< >>, Doc24301, << "j", "0", "0" >>, DotZip),
    Link(<< >>, Doc24301, << "i", "6", "0", "0" >>, DotZip),
    Link(<< >>, Doc24301, << "i", "6" >>, DotZip),
    Link(<< >>, Doc24301, << "i", "_", "0" >>, DotZip),
    Link(<< >>, Doc24301, << "i", "-", "0" >>, DotZip),
    Link(<< >>, Doc24301, << "8", "0", "0" >>, DotZip),
    Link(<< >>, Doc24301, << "i", "9", "0" >>, << ".", "d", "o", "c" >>) }

\* The listings of at most n links.
RECURSIVE ListingsUpTo(_)
ListingsUpTo(n) ==
  IF n = 0 THEN { << >> }
  ELSE ListingsUpTo(n - 1)
         \cup { Append(l, k) : l \in { m \in ListingsUpTo(n - 1) : Len(m) = n - 1 },
                               k \in SampleLinks }

Hrefs(links) == [i \in 1..Len(links) |-> Href(links[i])]

SpecTS24301 == << "T", "S", " ", "2", "4", ".", "3", "0", "1" >>

Request(spec, n) ==
  [spec |-> spec, release |-> RelLabelOf("plain", n), relNum |-> n]

SampleRequests == { Request(SpecTS24301, n) : n \in { 8, 15, 18 } }

HttpOutcomes == { "ok", "ConnectionError", "HTTPError" }

InitResolver ==
  /\ pc = "idle"
  /\ listing \in ListingsUpTo(MaxListing)
  /\ request \in SampleRequests
  /\ candidates = << >>
  /\ found = Raised("idle")
  /\ releases = << >>
  /\ CodecIdle /\ ExtractorIdle /\ CliIdle /\ ServerIdle

\* The resolution of check_3gpp_link and of the command line: the
\* identifier and the release label parsed, then find_spec_zip_link.
FindSpecZipLink(http) ==
  LET key == parse_spec_number(request.spec).val
      rel_suffix == rel_to_zip_suffix(request.release).val
  IN  /\ pc = "idle"
      /\ request.spec # << >>
      /\ candidates' =
           IF http = "ok"
             THEN CandidatesOf(Hrefs(listing), key.series, key.number, rel_suffix)
             ELSE << >>
      /\ found' = find_spec_zip_link(key.series, key.number, rel_suffix, http,
                                     Hrefs(listing))
      /\ pc' = "found"
      /\ UNCHANGED << listing, request, releases, codecVars, extractorVars, cliVars, serverVars >>

\* The grouping loop of list_available_specs on the same listing.
GroupReleases ==
  LET key == parse_spec_number(request.spec).val
  IN  /\ pc = "idle"
      /\ request.spec # << >>
      /\ releases' = ReleasesOf(Hrefs(listing), key.series, key.number)
      /\ pc' = "listed"
      /\ UNCHANGED << listing, request, candidates, found, codecVars, extractorVars, cliVars, serverVars >>

NextResolver ==
  \/ \E http \in HttpOutcomes : FindSpecZipLink(http)
  \/ GroupReleases

SpecResolver == InitResolver /\ [][NextResolver]_vars

(***************************************************************************)
(* What the listing and the request say, read from the parts they were     *)
(* written from and not from the text the code parses.                     *)
(***************************************************************************)
\* The digits of the requested identifier: series followed by number.
RequestedDoc == SelectSeq(request.spec, IsDecDigit)

\* The series and number the code reads from the requested identifier.
RequestKey == parse_spec_number(request.spec).val

\* The base-36 digit of the requested release number.
RequestedPrefix == Digits36[request.relNum + 1]

\* The order value of a version token: its value as a base-36 integer where
\* int(token, 36) reads one, and the sentinel 0 where it does not.
OrderValue(tok) ==
  IF ParseInt36(tok).raised = "none" THEN ParseInt36(tok).val ELSE 0

\* A token with a character that is no base-36 digit.
Malformed(tok) == \E k \in 1..Len(tok) : Digit36(tok[k]) < 0

\* The positions of the listing that hold an archive of the requested
\* document whose token starts with the requested release character.
Matching ==
  { i \in 1..Len(listing) :
      /\ listing[i].doc = RequestedDoc
      /\ listing[i].ext = DotZip
      /\ listing[i].tok # << >>
      /\ Head(listing[i].tok) = RequestedPrefix }

Range(seq) == { seq[i] : i \in 1..Len(seq) }

TokensListed == { listing[i].tok : i \in 1..Len(listing) }

\* C2: the archive find_spec_zip_link returns is an archive of the requested
\* document whose token starts with the requested release character and has
\* the largest base-36 order value among the listed archives of the document
\* with that character; when the listing holds none, the result is None.
C2_SelectsLatestOfRelease ==
  (pc = "found" /\ found.raised = "none") =>
    IF Matching = { } THEN found.val = NoLink
    ELSE \E i \in Matching :
           /\ found.val.href = Href(listing[i])
           /\ \A j \in Matching :
                OrderValue(listing[j].tok) <= OrderValue(listing[i].tok)

C2_Witness ==
  /\ pc = "found"
  /\ request.relNum = 18
  /\ TokensListed = { << "i", "0", "0" >>, << "i", "5", "z" >>, << "i", "6", "0" >> }
  /\ found = Returned(Urljoin(<< "2", "4" >>, << "3", "0", "1" >>,
                              Href(Link(<< >>, Doc24301, << "i", "6", "0" >>, DotZip))))

\* C3: a link whose filename belongs to another document number is never a
\* candidate and never returned, whatever digits and release character it
\* shares with the requested document; the candidates are exactly the listed
\* archives of the requested document of the requested release.
C3_OtherDocumentsExcluded ==
  (pc = "found" /\ found.raised = "none") =>
    /\ Range(candidates) = { Href(listing[i]) : i \in Matching }
    /\ \A i \in 1..Len(listing) :
         listing[i].doc # RequestedDoc =>
           /\ Href(listing[i]) \notin Range(candidates)
           /\ found.val.href # Href(listing[i])

C3_Witness ==
  /\ pc = "found"
  /\ request.relNum = 15
  /\ listing = << Link(<< >>, Doc24302, << "f", "1", "0" >>, DotZip),
                  Link(<< >>, Doc24301, << "f", "4", "0" >>, DotZip),
                  Link(<< >>, Doc24301, << "g", "2", "0" >>, DotZip) >>
  /\ candidates = << Href(Link(<< >>, Doc24301, << "f", "4", "0" >>, DotZip)) >>
  /\ found.val.href = Href(Link(<< >>, Doc24301, << "f", "4", "0" >>, DotZip))

\* C4: every link find_spec_zip_link keeps as a candidate, and so every
\* archive it returns, has a version token of exactly 3 characters.
C4_CandidateTokenIsThreeChars ==
  pc = "found" =>
    \A i \in 1..Len(listing) :
      (Href(listing[i]) \in Range(candidates) \/ (found.raised = "none"
         /\ found.val.href = Href(listing[i])))
        => Len(listing[i].tok) = 3

\* The release a token is expected under: its leading digit, or the letter
\* rule on its two trailing characters.
ClaimedRelease(tok) ==
  IF IsDecDigit(tok[1]) THEN Digit36(tok[1])
  ELSE 10 + (Magnitude36(SubSeq(tok, 2, 3)) \div 100) - 1

\* C7: list_available_specs groups a 3-character base-36 token under the
\* release of its leading digit d when it leads with a digit, and under
\* release 10 + (value of its two trailing characters \div 100) - 1 when it
\* leads with a letter; the token 800 is grouped under Rel-8.
C7_TokenToReleaseNumber ==
  pc = "listed" =>
    \A name \in DOMAIN releases :
      \A k \in 1..Len(releases[name]) :
        (Len(releases[name][k]) = 3 /\ ~Malformed(releases[name][k])) =>
          name = << "R", "e", "l", "-" >> \o IntString(ClaimedRelease(releases[name][k]))

\* C8: a candidate whose token holds a character that is no base-36 digit
\* gets order value 0 and never makes the resolution raise, and is selected
\* only if no candidate of the same release has a positive order value.
C8_MalformedTokenSortsLast ==
  pc = "found" =>
    /\ found.raised # "ValueError"
    /\ \A i \in 1..Len(listing) :
         (Href(listing[i]) \in Range(candidates) /\ Malformed(listing[i].tok)) =>
           /\ extract_version(Href(listing[i]), RequestKey.series, RequestKey.number) = 0
           /\ (found.val.href = Href(listing[i])) =>
                \A c \in Range(candidates) :
                  extract_version(c, RequestKey.series, RequestKey.number) <= 0

(***************************************************************************)
(* The extractor: the extraction loops of download_3gpp_document and of    *)
(* download_and_extract.                                                   *)
(***************************************************************************)
DocumentSuffixes ==
  { << ".", "p", "d", "f" >>, << ".", "d", "o", "c" >>,
    << ".", "d", "o", "c", "x" >> }

\* name.lower().endswith((".pdf", ".doc", ".docx"))
IsDocumentName(name) == \E suffix \in DocumentSuffixes : EndsWith(Lower(name), suffix)

\* A plausible slip: the names compared without .lower().
FileListCaseSensitive(namelist) ==
  SelectSeq(namelist, LAMBDA name : \E suffix \in DocumentSuffixes : EndsWith(name, suffix))

\* The list file_list of download_3gpp_document.
file_list(namelist) == SelectSeq(namelist, IsDocumentName)

\* The names download_and_extract extracts, in the order of its loop.
RECURSIVE CliExtracted(_)
CliExtracted(namelist) ==
  IF namelist = << >> THEN << >>
  ELSE IF IsDocumentName(Head(namelist))
    THEN << Head(namelist) >> \o CliExtracted(Tail(namelist))
  ELSE CliExtracted(Tail(namelist))

\* An archive entry, by its name and by what it is.
Entry(name, type) == [name |-> name, type |-> type]

SampleEntries ==
  { Entry(<< "s", ".", "p", "d", "f" >>, "pdf"),
    Entry(<< "r", ".", "t", "x", "t" >>, "other"),
    Entry(<< "d", ".", "D", "O", "C", "X" >>, "docx"),
    Entry(<< "a", "/", "b", ".", "D", "o", "c" >>, "doc"),
    Entry(<< "p", "d", "f" >>, "other"),
    Entry(<< "m", ".", "d", "o", "c", ".", "b", "a", "k" >>, "other"),
    Entry(<< "n", ".", "d", "o", "c", "x" >>, "docx"),
    Entry(<< "e", ".", "p", "d", "f", "/" >>, "other") }

RECURSIVE EntriesUpTo(_)
EntriesUpTo(n) ==
  IF n = 0 THEN { << >> }
  ELSE EntriesUpTo(n - 1)
         \cup { Append(l, e) : l \in { m \in EntriesUpTo(n - 1) : Len(m) = n - 1 },
                               e \in SampleEntries }

\* z.namelist()
Namelist(entries) == [i \in 1..Len(entries) |-> entries[i].name]

InitExtractor ==
  /\ pc = "idle"
  /\ archive \in [opens : BOOLEAN, entries : EntriesUpTo(MaxEntries)]
  /\ outDir = { }
  /\ extracted = << >>
  /\ runs = 0
  /\ CodecIdle /\ ResolverIdle /\ CliIdle /\ ServerIdle

\* One extraction of the archive into output_dir.  `names` are the names
\* the loop extracts; the write of the entry at position failAt fails with
\* OSError, none when failAt = 0.
Extraction(names, failAt) ==
  /\ runs < MaxRuns
  /\ runs' = runs + 1
  /\ IF ~archive.opens
       THEN /\ pc' = "BadZipFile"
            /\ extracted' = << >>
            /\ outDir' = outDir
       ELSE IF failAt > 0
         THEN /\ pc' = "OSError"
              /\ extracted' = SubSeq(names, 1, failAt - 1)
              /\ outDir' = outDir \cup Range(SubSeq(names, 1, failAt - 1))
         ELSE /\ pc' = "extracted"
              /\ extracted' = names
              /\ outDir' = outDir \cup Range(names)
  /\ UNCHANGED << archive, codecVars, resolverVars, cliVars, serverVars >>

ExtractByServer ==
  \E failAt \in 0..Len(file_list(Namelist(archive.entries))) :
    Extraction(file_list(Namelist(archive.entries)), failAt)

ExtractByCli ==
  \E failAt \in 0..Len(CliExtracted(Namelist(archive.entries))) :
    Extraction(CliExtracted(Namelist(archive.entries)), failAt)

NextExtractor == ExtractByServer \/ ExtractByCli

SpecExtractor == InitExtractor /\ [][NextExtractor]_vars

\* The names of the archive's entries that are documents.
DocumentEntries ==
  { archive.entries[i].name :
      i \in { k \in 1..Len(archive.entries) : archive.entries[k].type # "other" } }

\* C9: an extraction that completes extracts exactly the entries whose name
\* ends, without regard to case, in .pdf, .doc or .docx and skips the others;
\* a repeated extraction of the archive into the directory reports the same
\* set and leaves the same files.
C9_ExtractsExactlyDocuments ==
  /\ pc = "extracted" => /\ Range(extracted) = DocumentEntries
                         /\ outDir = DocumentEntries
  /\ outDir \subseteq DocumentEntries

C9_Witness ==
  /\ pc = "extracted"
  /\ runs = 2
  /\ Namelist(archive.entries) = << << "s", ".", "p", "d", "f" >>,
                                   << "r", ".", "t", "x", "t" >>,
                                   << "d", ".", "D", "O", "C", "X" >> >>
  /\ Range(extracted) = { << "s", ".", "p", "d", "f" >>,
                          << "d", ".", "D", "O", "C", "X" >> }

(***************************************************************************)
(* The command line: the main block of 3gpp_downloader.py.                 *)
(***************************************************************************)
\* download_and_extract: `fault` names the first step that raises.
download_and_extract(fault, namelist) ==
  CASE fault = "makedirs" -> Raised("OSError")
    [] fault = "fetch" -> Raised("HTTPError")
    [] fault = "write" -> Raised("OSError")
    [] fault = "badzip" -> Raised("BadZipFile")
    [] fault = "extract" /\ CliExtracted(namelist) # << >> -> Raised("OSError")
    [] OTHER -> Returned(CliExtracted(namelist))

\* The main block, to the stage at which the process ends.  An exception
\* nothing catches ends the interpreter with a traceback and status 1; a
\* run that reaches the end of the script ends with status 0.
cli_main(spec, release, http, hrefs, fault, namelist) ==
  LET parsed == parse_spec_number(spec)
      suffix == rel_to_zip_suffix(release)
      zip_link == find_spec_zip_link(parsed.val.series, parsed.val.number,
                                     suffix.val, http, hrefs)
      done == download_and_extract(fault, namelist)
  IN  IF parsed.raised # "none" THEN [stage |-> parsed.raised, exit |-> 1]
      ELSE IF suffix.raised # "none" THEN [stage |-> suffix.raised, exit |-> 1]
      ELSE IF zip_link.raised # "none" THEN [stage |-> zip_link.raised, exit |-> 1]
      ELSE IF zip_link.val = NoLink THEN [stage |-> "not found", exit |-> 0]
      ELSE IF done.raised # "none" THEN [stage |-> done.raised, exit |-> 1]
      ELSE [stage |-> "extracted", exit |-> 0]

SpecTs24301Part == << "t", "s", "2", "4", ".", "3", "0", "1", "-", "1" >>

SpecNoType == << "2", "4", ".", "3", "0", "1" >>

CliRequests ==
  { [spec |-> spec, release |-> RelLabelOf(kind, n), relNum |-> n] :
      spec \in { SpecTS24301, SpecTs24301Part, SpecNoType },
      kind \in { "plain", "bare" },
      n \in { 15, 18, 40 } }

Faults == { "none", "makedirs", "fetch", "write", "badzip", "extract" }

InitCli ==
  /\ pc = "idle"
  /\ request \in CliRequests
  /\ listing \in ListingsUpTo(1)
  /\ candidates = << >>
  /\ found = Raised("idle")
  /\ releases = << >>
  /\ cliExit = 0 - 1
  /\ cliStage = "started"
  /\ CodecIdle /\ ExtractorIdle /\ ServerIdle

CliMain(http, fault, entries) ==
  LET end == cli_main(request.spec, request.release, http, Hrefs(listing),
                      fault, Namelist(entries))
  IN  /\ pc = "idle"
      /\ cliStage = "started"
      /\ pc' = "exited"
      /\ cliStage' = end.stage
      /\ cliExit' = end.exit
      /\ UNCHANGED << codecVars, resolverVars, extractorVars, serverVars >>

NextCli ==
  \E http \in HttpOutcomes, fault \in Faults, entries \in EntriesUpTo(1) :
    CliMain(http, fault, entries)

SpecCli == InitCli /\ [][NextCli]_vars

\* C6: the command line exits with a non-zero status whenever resolution or
\* download fails, the case of no archive for the release included, and
\* exits with status zero only when the archive was resolved, downloaded
\* and extracted.
C6_ExitStatusTellsFailure ==
  pc = "exited" => (cliExit = 0 <=> cliStage = "extracted")

(***************************************************************************)
(* The server: the tools check_3gpp_link, download_3gpp_document and       *)
(* list_available_specs over the registry download_state.                  *)
(***************************************************************************)
\* f"{spec}_{release}_{int(time.time())}"
DownloadId(spec, release, t) ==
  spec \o << "_" >> \o release \o << "_" >> \o IntString(t)

\* download_state[download_id] = {...}
Registered(registry, id, entry) ==
  [x \in DOMAIN registry \cup { id } |-> IF x = id THEN entry ELSE registry[x]]

\* A plausible slip: the clean-up of the registry left out.
UnregisteredKept(registry, id) == registry

\* del download_state[download_id]
Unregistered(registry, id) == [x \in DOMAIN registry \ { id } |-> registry[x]]

\* A plausible slip: no except clause around the body of a tool.
CatchNothing(outcome) == outcome

\* except Exception as e: return f"Error occurred: {str(e)}"
Catch(outcome) ==
  IF outcome.raised # "none" THEN Message("failure", outcome.raised) ELSE outcome

\* The try block of check_3gpp_link: its outcome and the registry after it.
CheckBody(spec, release, http, hrefs, t, registry) ==
  LET parsed == parse_spec_number(spec)
      suffix == rel_to_zip_suffix(release)
      zip_link == find_spec_zip_link(parsed.val.series, parsed.val.number,
                                     suffix.val, http, hrefs)
      download_id == DownloadId(spec, release, t)
      entry == [spec |-> spec, release |-> release, zip_link |-> zip_link.val,
                series |-> parsed.val.series, number |-> parsed.val.number,
                status |-> "link_found", start_time |-> t]
      unchanged(outcome) ==
        [outcome |-> outcome, id |-> << >>, registry |-> registry]
  IN  IF parsed.raised # "none" THEN unchanged(Raised(parsed.raised))
      ELSE IF suffix.raised # "none" THEN unchanged(Raised(suffix.raised))
      ELSE IF zip_link.raised # "none" THEN unchanged(Raised(zip_link.raised))
      ELSE IF zip_link.val = NoLink
        THEN unchanged(Message("failure", "no archive"))
      ELSE [outcome |-> Message("success", "link found"),
            id |-> download_id,
            registry |-> Registered(registry, download_id, entry)]

\* A plausible slip: the entry deleted as soon as it is read, before the
\* fetch, so that a failed download loses it.
DownloadBodyDeletesFirst(download_id, fault, namelist, registry) ==
  LET stopped(outcome, fetches) ==
        [outcome |-> outcome,
         registry |-> [x \in DOMAIN registry \ { download_id } |-> registry[x]],
         fetches |-> fetches, extracted |-> << >>]
  IN  IF download_id \notin DOMAIN registry
        THEN stopped(Message("failure", "invalid download id"), 0)
      ELSE IF fault = "size" THEN stopped(Raised("HTTPError"), 1)
      ELSE IF fault = "makedirs" THEN stopped(Raised("OSError"), 1)
      ELSE IF fault = "fetch" THEN stopped(Raised("ConnectionError"), 2)
      ELSE IF fault = "write" THEN stopped(Raised("OSError"), 2)
      ELSE IF fault = "badzip" THEN stopped(Raised("BadZipFile"), 2)
      ELSE IF fault = "extract" /\ file_list(namelist) # << >>
        THEN stopped(Raised("OSError"), 2)
      ELSE [outcome |-> Message("success", "download completed"),
            registry |-> [x \in DOMAIN registry \ { download_id } |-> registry[x]],
            fetches |-> 2,
            extracted |-> file_list(namelist)]

\* The try block of download_3gpp_document: its outcome, the registry after
\* it, the requests it sent and the names it extracted.  `fault` names the
\* first step that raises.
DownloadBody(download_id, fault, namelist, registry) ==
  LET stopped(outcome, fetches) ==
        [outcome |-> outcome, registry |-> registry, fetches |-> fetches,
         extracted |-> << >>]
  IN  IF download_id \notin DOMAIN registry
        THEN stopped(Message("failure", "invalid download id"), 0)
      ELSE IF fault = "size" THEN stopped(Raised("HTTPError"), 1)
      ELSE IF fault = "makedirs" THEN stopped(Raised("OSError"), 1)
      ELSE IF fault = "fetch" THEN stopped(Raised("ConnectionError"), 2)
      ELSE IF fault = "write" THEN stopped(Raised("OSError"), 2)
      ELSE IF fault = "badzip" THEN stopped(Raised("BadZipFile"), 2)
      ELSE IF fault = "extract" /\ file_list(namelist) # << >>
        THEN stopped(Raised("OSError"), 2)
      ELSE [outcome |-> Message("success", "download completed"),
            registry |-> Unregistered(registry, download_id),
            fetches |-> 2,
            extracted |-> file_list(namelist)]

ServerFaults == Faults \cup { "size" }

ServerListings ==
  { << >>,
    << Link(<< >>, Doc24301, << "i", "0", "0" >>, DotZip),
       Link(<< >>, Doc24301, << "i", "6", "0" >>, DotZip) >>,
    << Link(<< "x", "/" >>, Doc24301, << "i", "5", "z" >>, DotZip),
       Link(<< >>, Doc24302, << "f", "1", "0" >>, DotZip) >> }

ServerSpecs == { SpecTS24301, SpecNoType }

ServerReleases ==
  { RelLabelOf("plain", 18), RelLabelOf("plain", 15), RelLabelOf("plain", 40),
    RelLabelOf("bare", 18) }

\* The IDs a caller may present: those the clock can produce, and one that
\* was never handed out.
PresentedIds ==
  { DownloadId(SpecTS24301, RelLabelOf("plain", n), t) :
      n \in { 15, 18 }, t \in 0..MaxTime }
    \cup { << "?" >> }

\* The archives the archive server sends.
ServerArchives ==
  { << >>,
    << Entry(<< "s", ".", "p", "d", "f" >>, "pdf"),
       Entry(<< "r", ".", "t", "x", "t" >>, "other"),
       Entry(<< "d", ".", "D", "O", "C", "X" >>, "docx") >>,
    << Entry(<< "r", ".", "t", "x", "t" >>, "other") >> }

\* The pages of the series 20..39 as list_available_specs finds them.
SeriesPages ==
  { [n \in 20..39 |-> "error"],
    [n \in 20..39 |-> "empty"],
    [n \in 20..39 |-> IF n = 24 THEN "specs" ELSE "error"] }

InitServer ==
  /\ pc = "serving"
  /\ download_state = << >>
  /\ now = 0
  /\ last = [op |-> "none"]
  /\ consumed = { }
  /\ CodecIdle /\ ResolverIdle /\ ExtractorIdle /\ CliIdle

check_3gpp_link(spec, release, http, links) ==
  LET body == CheckBody(spec, release, http, Hrefs(links), now, download_state)
  IN  /\ download_state' = body.registry
      /\ last' = [op |-> "check", id |-> body.id, answer |-> Catch(body.outcome),
                  fetches |-> 0, extracted |-> << >>, wasConsumed |-> FALSE]
      /\ consumed' = consumed \ DOMAIN body.registry
      /\ UNCHANGED << pc, now, codecVars, resolverVars, extractorVars, cliVars >>

download_3gpp_document(download_id, fault, entries) ==
  LET body == DownloadBody(download_id, fault, Namelist(entries), download_state)
      answer == Catch(body.outcome)
  IN  /\ download_state' = body.registry
      /\ last' = [op |-> "download", id |-> download_id, answer |-> answer,
                  fetches |-> body.fetches, extracted |-> body.extracted,
                  wasConsumed |-> download_id \in consumed]
      /\ consumed' =
           IF answer.raised = "none" /\ answer.val.kind = "success"
             THEN consumed \cup { download_id }
             ELSE consumed
      /\ UNCHANGED << pc, now, codecVars, resolverVars, extractorVars, cliVars >>

list_available_specs(spec, release, http, links, pages) ==
  /\ last' = [op |-> "list", id |-> << >>,
              answer |-> Catch(ListAvailableSpecsBody(spec, release, http,
                                                      Hrefs(links), pages)),
              fetches |-> 0, extracted |-> << >>, wasConsumed |-> FALSE]
  /\ UNCHANGED << pc, download_state, now, consumed,
                  codecVars, resolverVars, extractorVars, cliVars >>

\* A second of the clock passes.
Tick ==
  /\ now < MaxTime
  /\ now' = now + 1
  /\ UNCHANGED << pc, download_state, last, consumed,
                  codecVars, resolverVars, extractorVars, cliVars >>

Next ==
  \/ \E spec \in ServerSpecs, release \in ServerReleases,
        http \in HttpOutcomes, links \in ServerListings :
       check_3gpp_link(spec, release, http, links)
  \/ \E id \in PresentedIds, fault \in ServerFaults, entries \in ServerArchives :
       download_3gpp_document(id, fault, entries)
  \/ \E spec \in ServerSpecs \cup { << >> },
        release \in { << >>, RelLabelOf("plain", 18), RelLabelOf("plain", 244) },
        http \in { "ok", "HTTPError" }, links \in ServerListings,
        pages \in SeriesPages :
       list_available_specs(spec, release, http, links, pages)
  \/ Tick

Spec == InitServer /\ [][Next]_vars

\* C5: every call of a tool returns a message of success or of failure,
\* whatever the input and whatever the collaborators do; no exception
\* reaches the caller.
C5_ToolsNeverRaise ==
  last.op # "none" =>
    /\ last.answer.raised = "none"
    /\ last.answer.val.kind \in { "success", "failure" }

C5_Witness ==
  /\ last.op = "download"
  /\ last.answer = Message("failure", "BadZipFile")

\* C10: once a download of an ID has returned success the ID is out of
\* download_state, and until a check registers it again every download of
\* that ID returns the invalid-ID failure, sending no request and
\* extracting nothing.
C10_IdConsumedAtMostOnce ==
  /\ \A id \in consumed : id \notin DOMAIN download_state
  /\ (last.op = "download" /\ last.answer.raised = "none"
        /\ last.answer.val.kind = "success") =>
       last.id \in consumed
  /\ (last.op = "download" /\ last.wasConsumed) =>
       /\ last.answer = Message("failure", "invalid download id")
       /\ last.fetches = 0
       /\ last.extracted = << >>

C10_Witness ==
  /\ last.op = "download"
  /\ last.wasConsumed
  /\ last.id = DownloadId(SpecTS24301, RelLabelOf("plain", 18), 0)
  /\ last.answer = Message("failure", "invalid download id")

\* C11: a call that returns a failure message leaves download_state as it
\* was; check_3gpp_link adds an entry only when it returns a found link,
\* download_3gpp_document removes an entry, the one of its ID, only when it
\* returns success, and list_available_specs never changes download_state.
C11_FailureLeavesRegistryUnchanged ==
  [][ /\ (last'.op # "none" /\ last'.answer.val.kind = "failure") =>
           download_state' = download_state
      /\ (last'.op = "list") => download_state' = download_state
      /\ (download_state' # download_state) =>
           /\ last'.answer.val.kind = "success"
           /\ \/ /\ last'.op = "check"
                 /\ DOMAIN download_state' = DOMAIN download_state \cup { last'.id }
                 /\ \A x \in DOMAIN download_state \ { last'.id } :
                      download_state'[x] = download_state[x]
              \/ /\ last'.op = "download"
                 /\ last'.id \in DOMAIN download_state
                 /\ download_state' =
                      [x \in DOMAIN download_state \ { last'.id } |->
                         download_state[x]]
    ]_vars

C11_Witness ==
  /\ last.op = "download"
  /\ last.fetches = 2
  /\ last.answer = Message("failure", "OSError")
  /\ last.id \in DOMAIN download_state

\* The download IDs that successful checks have returned so far. An ID
\* leaves download_state only by a successful download, which records it in
\* consumed, and leaves consumed only by being registered again.
IssuedIds == DOMAIN download_state \cup consumed

\* C12: two distinct successful check_3gpp_link calls never return the same
\* download ID, two checks within one clock second included: the ID that a
\* successful check returns has not been returned by an earlier check, so
\* it overwrites no registry entry. (A step that keeps the clock and leaves
\* last.op = "check" is a call of check_3gpp_link.)
C12_DownloadIdsUnique ==
  [][ ( /\ now' = now
        /\ last'.op = "check"
        /\ last'.answer.val.kind = "success" ) =>
          last'.id \notin IssuedIds ]_vars

====
